---- MODULE Spec2Model ----
(***************************************************************************)
(* Model of backend/app.py: the /analyze request handler (analyze_video),  *)
(* the per-snippet analysis (analyze_line_safe) and the fact lookup        *)
(* (retrieve_correct_fact).  One request is followed from its arrival to   *)
(* its response.  The external collaborators (transcript source,           *)
(* classifier model, encyclopedia) are inputs drawn from small sets of     *)
(* outcomes when the handler calls them.                                   *)
(*                                                                         *)
(* Python values: a str is a tuple of one-character strings where the code *)
(* looks inside it (snippet text, STOPWORDS) and a TLA+ string where it is *)
(* only carried; an optional value is None == {} or Some(x) == {x}.        *)
(***************************************************************************)
EXTENDS Integers, Sequences, FiniteSets, TLC

\* Longest transcript a track returns, and most tracks a video lists.
MaxSnippets == 2
MaxTracks == 2

None == {}
Some(x) == {x}
Val(o) == CHOOSE x \in o : TRUE

\* Python truthiness of an optional str: None and "" are falsy.
Truthy(o) == o # None /\ Val(o) # ""

-----------------------------------------------------------------------------
(* Constants of the program *)

label_map ==
  [p \in 0..5 |-> CASE p = 0 -> "pants-fire"
                    [] p = 1 -> "false"
                    [] p = 2 -> "barely-true"
                    [] p = 3 -> "half-true"
                    [] p = 4 -> "mostly-true"
                    [] p = 5 -> "true"]

STOPWORDS ==
  << <<"h","i">>,
     <<"h","e","l","l","o">>,
     <<"y","o","u"," ","k","n","o","w">>,
     <<"z","o","o","m"," ","i","n">>,
     <<"w","o","o","h">>,
     <<"h","e","y"," ","f","r","i","e","n","d","s">>,
     <<"o","b","v","i","o","u","s"," ","r","e","a","s","o","n","s">> >>

-----------------------------------------------------------------------------
(* str methods used by the filter *)

UpperChars == <<"A","B","C","D","E","F","G","H","I","J","K","L","M",
                "N","O","P","Q","R","S","T","U","V","W","X","Y","Z">>
LowerChars == <<"a","b","c","d","e","f","g","h","i","j","k","l","m",
                "n","o","p","q","r","s","t","u","v","w","x","y","z">>

LowerChar(c) ==
  IF \E k \in 1..26 : UpperChars[k] = c
  THEN LowerChars[CHOOSE k \in 1..26 : UpperChars[k] = c]
  ELSE c

\* str.lower()
str_lower(s) == [k \in 1..Len(s) |-> LowerChar(s[k])]

IsSpace(c) == c \in {" ", "\t", "\n"}

\* str.split() without arguments: the maximal runs of non-whitespace.
RECURSIVE SplitFrom(_, _, _, _)
SplitFrom(s, k, cur, acc) ==
  IF k > Len(s)
  THEN IF cur = <<>> THEN acc ELSE Append(acc, cur)
  ELSE IF IsSpace(s[k])
       THEN SplitFrom(s, k + 1, <<>>, IF cur = <<>> THEN acc ELSE Append(acc, cur))
       ELSE SplitFrom(s, k + 1, Append(cur, s[k]), acc)

str_split(s) == SplitFrom(s, 1, <<>>, <<>>)

\* sub in s
str_contains(sub, s) ==
  \E k \in 0..(Len(s) - Len(sub)) : SubSeq(s, k + 1, k + Len(sub)) = sub

-----------------------------------------------------------------------------
(* Python control flow: a call returns a value or raises an exception *)

Return(v) == [raised |-> FALSE, value |-> v, exc |-> "", msg |-> ""]
Raise(e, m) == [raised |-> TRUE, value |-> None, exc |-> e, msg |-> m]

-----------------------------------------------------------------------------
(* Outcomes of the external collaborators *)

\* What the wikipedia package does for one query: whether the package can be
\* imported, what page(snippet_text) does, what summary(result.title) does,
\* how many options a DisambiguationError lists and what
\* summary(e.options[0]) does.
LookupScenarios ==
  { [import_ok |-> FALSE, page |-> "ok", summary |-> "text", options |-> 0, first |-> "text"],
    [import_ok |-> TRUE, page |-> "ok", summary |-> "text", options |-> 0, first |-> "text"],
    [import_ok |-> TRUE, page |-> "ok", summary |-> "empty", options |-> 0, first |-> "text"],
    [import_ok |-> TRUE, page |-> "PageError", summary |-> "text", options |-> 0, first |-> "text"],
    [import_ok |-> TRUE, page |-> "ConnectionError", summary |-> "text", options |-> 0, first |-> "text"],
    [import_ok |-> TRUE, page |-> "DisambiguationError", summary |-> "text", options |-> 1, first |-> "text"],
    [import_ok |-> TRUE, page |-> "DisambiguationError", summary |-> "text", options |-> 1, first |-> "PageError"] }

\* The scenario recorded when the lookup is not called.
NoLookup == [import_ok |-> TRUE, page |-> "ok", summary |-> "text", options |-> 0, first |-> "text"]

\* Softmax probability of the argmax class, in percent.
Confidences == {55, 99}

\* What tokenizer + model do for one text: a fault, or an argmax class with
\* its probability.
ClassifierOutcomes ==
  { [fault |-> TRUE, pred_id |-> 0, confidence |-> 55] }
  \cup { [fault |-> FALSE, pred_id |-> p, confidence |-> c] : p \in 0..5, c \in Confidences }

\* The outcome recorded when the classifier is not called.
NoClassify == [fault |-> FALSE, pred_id |-> 0, confidence |-> 55]

\* Snippet texts a transcript can hold.
\* "ice is hot", "oh  no ", "Hi to all", "this is it"
TxtClaim == <<"i","c","e"," ","i","s"," ","h","o","t">>
TxtSpaces == <<"o","h"," "," ","n","o"," ">>
TxtGreeting == <<"H","i"," ","t","o"," ","a","l","l">>
TxtInner == <<"t","h","i","s"," ","i","s"," ","i","t">>
SnippetTexts == { Some(TxtClaim), Some(TxtSpaces), Some(TxtGreeting), Some(TxtInner), None }

-----------------------------------------------------------------------------
(* retrieve_correct_fact *)

SummaryText(kind) == IF kind = "empty" THEN "" ELSE "fact"

\* The handler of DisambiguationError: an exception raised inside it is
\* not caught by the sibling except clause.
DisambiguationHandler(lk) ==
  IF lk.options = 0
  THEN Raise("IndexError", "list index out of range")
  ELSE IF lk.first \in {"text", "empty"}
       THEN Return(<<Some(SummaryText(lk.first)), Some("Wikipedia: " \o "option")>>)
       ELSE Raise(lk.first, "page does not match any pages")

\* A failed import leaves the local name exceptions unbound, so evaluating
\* the first except clause raises UnboundLocalError out of the function.
retrieve_correct_fact(snippet_text, lk) ==
  IF ~lk.import_ok
  THEN Raise("UnboundLocalError", "cannot access local variable 'exceptions'")
  ELSE IF lk.page = "ok"
       THEN IF lk.summary \in {"text", "empty"}
            THEN Return(<<Some(SummaryText(lk.summary)), Some("Wikipedia: " \o "url")>>)
            ELSE IF lk.summary = "DisambiguationError"
                 THEN DisambiguationHandler(lk)
                 ELSE Return(<<None, None>>)
       ELSE IF lk.page = "DisambiguationError"
            THEN DisambiguationHandler(lk)
            ELSE Return(<<None, None>>)

-----------------------------------------------------------------------------
(* analyze_line_safe *)

\* Variant of filter_condition that matches the denylist against the text as
\* written, without lowering it.
filter_condition_cased(text) ==
  \/ Len(str_split(text)) < 3
  \/ \E k \in 1..Len(STOPWORDS) : str_contains(STOPWORDS[k], text)

\* The filter condition of line 58, for a str.
filter_condition(text) ==
  \/ Len(str_split(text)) < 3
  \/ \E k \in 1..Len(STOPWORDS) : str_contains(STOPWORDS[k], str_lower(text))

\* filter_condition, computed once for each text a transcript can hold.
FilterTable ==
  [tx \in {Val(o) : o \in SnippetTexts \ {None}} |-> filter_condition(tx)]

snippet_filter(text) == FilterTable[text]

\* Variant of resolve that drops the diagnostic when the lookup raises.
resolve_silent(label, text, lk) ==
  IF label \in {"true", "mostly-true"}
  THEN [misinfo_label |-> "REAL", correct_fact |-> None, source |-> None,
        looked_up |-> None]
  ELSE IF label \in {"half-true", "barely-true"}
       THEN [misinfo_label |-> "UNCERTAIN", correct_fact |-> None, source |-> None,
             looked_up |-> None]
       ELSE LET r == retrieve_correct_fact(text, lk) IN
            IF r.raised
            THEN [misinfo_label |-> "MISINFORMATION", correct_fact |-> None,
                  source |-> None, looked_up |-> Some(r)]
            ELSE [misinfo_label |-> "MISINFORMATION", correct_fact |-> r.value[1],
                  source |-> r.value[2], looked_up |-> Some(r)]

\* Variant of resolve that looks the fact up for UNCERTAIN snippets too.
resolve_lookup_uncertain(label, text, lk) ==
  IF label \in {"true", "mostly-true"}
  THEN [misinfo_label |-> "REAL", correct_fact |-> None, source |-> None,
        looked_up |-> None]
  ELSE LET r == retrieve_correct_fact(text, lk)
           tier == IF label \in {"half-true", "barely-true"}
                   THEN "UNCERTAIN" ELSE "MISINFORMATION"
       IN IF r.raised
          THEN [misinfo_label |-> tier, correct_fact |-> None,
                source |-> Some("Fact retrieval failed: " \o r.msg),
                looked_up |-> Some(r)]
          ELSE [misinfo_label |-> tier, correct_fact |-> r.value[1],
                source |-> r.value[2], looked_up |-> Some(r)]

\* Variant of resolve whose UNCERTAIN list misses "barely-true".
resolve_short_list(label, text, lk) ==
  IF label \in {"true", "mostly-true"}
  THEN [misinfo_label |-> "REAL", correct_fact |-> None, source |-> None,
        looked_up |-> None]
  ELSE IF label \in {"half-true"}
       THEN [misinfo_label |-> "UNCERTAIN", correct_fact |-> None, source |-> None,
             looked_up |-> None]
       ELSE LET r == retrieve_correct_fact(text, lk) IN
            IF r.raised
            THEN [misinfo_label |-> "MISINFORMATION", correct_fact |-> None,
                  source |-> Some("Fact retrieval failed: " \o r.msg),
                  looked_up |-> Some(r)]
            ELSE [misinfo_label |-> "MISINFORMATION", correct_fact |-> r.value[1],
                  source |-> r.value[2], looked_up |-> Some(r)]

\* Map to UI labels; looked_up records the call of retrieve_correct_fact.
resolve(label, text, lk) ==
  IF label \in {"true", "mostly-true"}
  THEN [misinfo_label |-> "REAL", correct_fact |-> None, source |-> None,
        looked_up |-> None]
  ELSE IF label \in {"half-true", "barely-true"}
       THEN [misinfo_label |-> "UNCERTAIN", correct_fact |-> None, source |-> None,
             looked_up |-> None]
       ELSE LET r == retrieve_correct_fact(text, lk) IN
            IF r.raised
            THEN [misinfo_label |-> "MISINFORMATION", correct_fact |-> None,
                  source |-> Some("Fact retrieval failed: " \o r.msg),
                  looked_up |-> Some(r)]
            ELSE [misinfo_label |-> "MISINFORMATION", correct_fact |-> r.value[1],
                  source |-> r.value[2], looked_up |-> Some(r)]

\* The body of the outer try.  out is the returned analysis or the raised
\* exception; tokenized is the text handed to the tokenizer, if any.
analyze_line_body(text, cls, lk) ==
  IF text = None
  THEN [out |-> Raise("AttributeError", "'NoneType' object has no attribute 'split'"),
        tokenized |-> None, looked_up |-> None]
  ELSE IF snippet_filter(Val(text))
       THEN [out |-> Return([label |-> "IGNORED", raw_label |-> None, score |-> None,
                             correct_fact |-> None, source |-> None]),
             tokenized |-> None, looked_up |-> None]
       ELSE IF cls.fault
            THEN [out |-> Raise("RuntimeError", "model failure"),
                  tokenized |-> text, looked_up |-> None]
            ELSE LET label == label_map[cls.pred_id]
                     v == resolve(label, text, lk)
                 IN [out |-> Return([label |-> v.misinfo_label,
                                     raw_label |-> Some(label),
                                     score |-> Some(cls.confidence),
                                     correct_fact |-> v.correct_fact,
                                     source |-> v.source]),
                     tokenized |-> text, looked_up |-> v.looked_up]

\* Variant of analyze_line_safe without the outer except clause.
analyze_line_unguarded(text, cls, lk) == analyze_line_body(text, cls, lk)

analyze_line_safe(text, cls, lk) ==
  LET b == analyze_line_body(text, cls, lk) IN
  IF b.out.raised
  THEN [b EXCEPT !.out =
          Return([label |-> "ERROR", raw_label |-> None, score |-> None,
                  correct_fact |-> None,
                  source |-> Some("Snippet processing failed: " \o b.out.msg)])]
  ELSE b

-----------------------------------------------------------------------------
(* extract_video_id and the request *)

UrlWatch == "https://www.youtube.com/watch?v=dQw4w9WgXcQ"
UrlOther == "https://example.com/watch"

\* re.search of the pattern, on the URLs the requests carry.
extract_video_id(url) ==
  IF url = UrlWatch THEN Some("dQw4w9WgXcQ") ELSE None

\* request.json: a ValueError, a falsy body, or a dict with or without "url".
Requests ==
  { [invalid |-> TRUE, data |-> None],
    [invalid |-> FALSE, data |-> None],
    [invalid |-> FALSE, data |-> Some([url |-> None])],
    [invalid |-> FALSE, data |-> Some([url |-> Some("")])],
    [invalid |-> FALSE, data |-> Some([url |-> Some(UrlOther)])],
    [invalid |-> FALSE, data |-> Some([url |-> Some(UrlWatch)])] }

\* ytt_api.list(video_id): one of the exceptions, or that many tracks.
ListFailures == {"NoTranscriptFound", "VideoUnavailable", "TranscriptsDisabled", "Exception"}

\* t.fetch() returns a transcript: snippets with a text and a start.
Transcripts ==
  UNION { [1..n -> SnippetTexts] : n \in 0..MaxSnippets }

Snippets(texts) == [k \in 1..Len(texts) |-> [text |-> texts[k], start |-> k]]

-----------------------------------------------------------------------------
(* State of one request *)

VARIABLES
  pc,                  \* position of the handler
  video_url,           \* data.get("url")
  transcript_list,     \* number of tracks ytt_api.list returned
  t,                   \* tracks the for loop has taken from transcript_list
  transcript,          \* None, or the fetched transcript
  i,                   \* snippets the analysis loop has processed
  analyzed_transcript,
  misconceptions,
  summary_facts,
  summary,             \* None until the summary is computed
  status,              \* HTTP status of the response, 0 before it
  error,               \* "error" of the response body, or None
  calls                \* per processed snippet: the analysis and the calls made

vars == <<pc, video_url, transcript_list, t, transcript, i, analyzed_transcript,
          misconceptions, summary_facts, summary, status, error, calls>>

Init ==
  /\ pc = "start"
  /\ video_url = None
  /\ transcript_list = 0
  /\ t = 0
  /\ transcript = None
  /\ i = 0
  /\ analyzed_transcript = <<>>
  /\ misconceptions = <<>>
  /\ summary_facts = <<>>
  /\ summary = None
  /\ status = 0
  /\ error = None
  /\ calls = <<>>

\* return jsonify({"error": message}), code
Respond(code, message) ==
  /\ pc' = "done"
  /\ status' = code
  /\ error' = Some(message)

\* Lines 113-127.
ReceiveRequest ==
  /\ pc = "start"
  /\ \E req \in Requests :
       IF req.invalid
       THEN /\ Respond(400, "Invalid JSON format")
            /\ UNCHANGED video_url
       ELSE IF req.data = None
            THEN /\ Respond(400, "Empty request body")
                 /\ UNCHANGED video_url
            ELSE /\ video_url' = Val(req.data).url
                 /\ IF ~Truthy(video_url')
                    THEN Respond(400, "No URL provided")
                    ELSE IF extract_video_id(Val(video_url')) = None
                         THEN Respond(400, "Invalid YouTube URL")
                         ELSE /\ pc' = "list"
                              /\ UNCHANGED <<status, error>>
  /\ UNCHANGED <<transcript_list, t, transcript, i, analyzed_transcript,
                 misconceptions, summary_facts, summary, calls>>

\* Lines 131-133 and the except clauses of lines 142-146.
ListTranscripts ==
  /\ pc = "list"
  /\ \/ \E e \in ListFailures :
          /\ IF e = "Exception"
             THEN Respond(500, "Failed to fetch transcript: " \o e)
             ELSE Respond(400, e)
          /\ UNCHANGED transcript_list
     \/ \E n \in 0..MaxTracks :
          /\ transcript_list' = n
          /\ pc' = "fetch"
          /\ UNCHANGED <<status, error>>
  /\ UNCHANGED <<video_url, t, transcript, i, analyzed_transcript,
                 misconceptions, summary_facts, summary, calls>>

\* One iteration of the for loop of lines 134-139: t.fetch() raises and the
\* loop continues, or it returns and the loop breaks.
FetchTrack ==
  /\ pc = "fetch"
  /\ t < transcript_list
  /\ t' = t + 1
  /\ \/ UNCHANGED <<pc, transcript>>
     \/ \E texts \in Transcripts :
          /\ transcript' = Some(Snippets(texts))
          /\ pc' = "check"
  /\ UNCHANGED <<video_url, transcript_list, i, analyzed_transcript,
                 misconceptions, summary_facts, summary, status, error, calls>>

\* Lines 140-141, after the break or the end of the loop.
CheckTranscript ==
  /\ \/ pc = "check"
     \/ pc = "fetch" /\ t = transcript_list
  /\ IF transcript = None \/ Val(transcript) = <<>>
     THEN Respond(400, "No valid transcript found")
     ELSE /\ pc' = "analyze"
          /\ UNCHANGED <<status, error>>
  /\ UNCHANGED <<video_url, transcript_list, t, transcript, i, analyzed_transcript,
                 misconceptions, summary_facts, summary, calls>>

-----------------------------------------------------------------------------
(* The analysis loop and the summary *)

\* Lines 159-166.
line_data(snippet, analysis) ==
  [timestamp |-> snippet.start,
   text |-> snippet.text,
   misinformation |-> analysis.label,
   score |-> analysis.score,
   correct_fact |-> analysis.correct_fact,
   source |-> analysis.source]

\* Variant of aggregate that puts each new line in front of the lists.
aggregate_prepend(lists, snippet, analysis) ==
  IF analysis.label = "IGNORED"
  THEN lists
  ELSE LET ld == line_data(snippet, analysis) IN
       [analyzed_transcript |-> <<ld>> \o lists.analyzed_transcript,
        misconceptions |->
          IF analysis.label = "MISINFORMATION"
          THEN <<ld>> \o lists.misconceptions
          ELSE lists.misconceptions,
        summary_facts |->
          IF analysis.label = "MISINFORMATION" /\ Truthy(analysis.correct_fact)
          THEN <<[term |-> snippet.text,
                  fact |-> analysis.correct_fact,
                  source |-> analysis.source]>> \o lists.summary_facts
          ELSE lists.summary_facts]

\* Variant of aggregate that adds a summary fact for every MISINFORMATION
\* line, with or without a fact.
aggregate_every_fact(lists, snippet, analysis) ==
  IF analysis.label = "IGNORED"
  THEN lists
  ELSE LET ld == line_data(snippet, analysis) IN
       [analyzed_transcript |-> Append(lists.analyzed_transcript, ld),
        misconceptions |->
          IF analysis.label = "MISINFORMATION"
          THEN Append(lists.misconceptions, ld)
          ELSE lists.misconceptions,
        summary_facts |->
          IF analysis.label = "MISINFORMATION"
          THEN Append(lists.summary_facts,
                      [term |-> snippet.text,
                       fact |-> analysis.correct_fact,
                       source |-> analysis.source])
          ELSE lists.summary_facts]

\* Lines 156-175: what one analysed snippet adds to the three lists.
aggregate(lists, snippet, analysis) ==
  IF analysis.label = "IGNORED"
  THEN lists
  ELSE LET ld == line_data(snippet, analysis) IN
       [analyzed_transcript |-> Append(lists.analyzed_transcript, ld),
        misconceptions |->
          IF analysis.label = "MISINFORMATION"
          THEN Append(lists.misconceptions, ld)
          ELSE lists.misconceptions,
        summary_facts |->
          IF analysis.label = "MISINFORMATION" /\ Truthy(analysis.correct_fact)
          THEN Append(lists.summary_facts,
                      [term |-> snippet.text,
                       fact |-> analysis.correct_fact,
                       source |-> analysis.source])
          ELSE lists.summary_facts]

\* Variant of make_summary that counts every line that is not
\* MISINFORMATION as real.
make_summary_rest_real(lines, misinfo) ==
  [total_snippets |-> Len(lines),
   misinformation_count |-> Len(misinfo),
   real_count |-> Len(lines) - Len(misinfo)]

\* Lines 178-182.
make_summary(lines, misinfo) ==
  [total_snippets |-> Len(lines),
   misinformation_count |-> Len(misinfo),
   real_count |-> Cardinality({k \in 1..Len(lines) : lines[k].misinformation = "REAL"})]

\* The classifier answers only when analyze_line_safe hands it a text, and
\* the lookup only when retrieve_correct_fact is called.
ClassifierAnswers(text) ==
  IF analyze_line_safe(text, NoClassify, NoLookup).tokenized = None
  THEN {NoClassify}
  ELSE ClassifierOutcomes

LookupAnswers(text, cls) ==
  IF analyze_line_safe(text, cls, NoLookup).looked_up = None
  THEN {NoLookup}
  ELSE LookupScenarios

\* One iteration of the loop of lines 152-175.  The classifier and the lookup
\* answer only when they are called.  An exception leaving analyze_line_safe
\* would leave the handler, and Flask answers 500.
AnalyzeSnippet ==
  /\ pc = "analyze"
  /\ i < Len(Val(transcript))
  /\ \E cls \in ClassifierAnswers(Val(transcript)[i + 1].text) :
     \E lk \in LookupAnswers(Val(transcript)[i + 1].text, cls) :
       LET snippet == Val(transcript)[i + 1]
           r == analyze_line_safe(snippet.text, cls, lk)
       IN IF r.out.raised
          THEN /\ pc' = "done"
               /\ status' = 500
               /\ UNCHANGED <<i, analyzed_transcript, misconceptions,
                              summary_facts, calls, error>>
          ELSE LET lists == aggregate([analyzed_transcript |-> analyzed_transcript,
                                       misconceptions |-> misconceptions,
                                       summary_facts |-> summary_facts],
                                      snippet, r.out.value)
               IN /\ analyzed_transcript' = lists.analyzed_transcript
                  /\ misconceptions' = lists.misconceptions
                  /\ summary_facts' = lists.summary_facts
                  /\ i' = i + 1
                  /\ calls' = Append(calls,
                                     [analysis |-> r.out.value,
                                      tokenized |-> r.tokenized,
                                      cls |-> cls,
                                      lk |-> lk,
                                      looked_up |-> r.looked_up])
                  /\ UNCHANGED <<pc, status, error>>
  /\ UNCHANGED <<video_url, transcript_list, t, transcript, summary>>

\* Lines 178-190: the loop is over, the response is built.
Summarize ==
  /\ pc = "analyze"
  /\ i = Len(Val(transcript))
  /\ summary' = Some(make_summary(analyzed_transcript, misconceptions))
  /\ status' = 200
  /\ pc' = "done"
  /\ UNCHANGED <<video_url, transcript_list, t, transcript, i, analyzed_transcript,
                 misconceptions, summary_facts, error, calls>>

Next ==
  \/ ReceiveRequest
  \/ ListTranscripts
  \/ FetchTrack
  \/ CheckTranscript
  \/ AnalyzeSnippet
  \/ Summarize

Spec == Init /\ [][Next]_vars

-----------------------------------------------------------------------------
(* Vocabulary of the properties *)

\* Input snippet j and what was recorded when the loop processed it.
SnippetAt(j) == Val(transcript)[j]
VerdictOf(j) == calls[j].analysis.label

\* The handler has answered 200 after processing the whole transcript.
Answered == pc = "done" /\ status = 200

\* Indices of the first n input snippets whose verdict is not IGNORED, in
\* transcript order.
RECURSIVE KeptUpTo(_)
KeptUpTo(n) ==
  IF n = 0 THEN <<>>
  ELSE IF VerdictOf(n) # "IGNORED" THEN Append(KeptUpTo(n - 1), n)
       ELSE KeptUpTo(n - 1)

\* Number of maximal runs of non-whitespace characters.
WordCount(s) ==
  Cardinality({k \in 1..Len(s) : ~IsSpace(s[k]) /\ (k = 1 \/ IsSpace(s[k - 1]))})

\* Some denylisted phrase occurs in s, compared without regard to case.
HasFiller(s) ==
  \E w \in 1..Len(STOPWORDS) :
    \E off \in 0..(Len(s) - Len(STOPWORDS[w])) :
      \A m \in 1..Len(STOPWORDS[w]) : LowerChar(s[off + m]) = STOPWORDS[w][m]

\* The texts the filter has to drop.
ShortOrFiller ==
  {tx \in {Val(o) : o \in SnippetTexts \ {None}} : WordCount(tx) < 3 \/ HasFiller(tx)}

\* Snippet j raised an internal fault: its text is no str, or the classifier
\* failed on it.
Faulted(j) ==
  \/ SnippetAt(j).text = None
  \/ /\ Val(SnippetAt(j).text) \notin ShortOrFiller
     /\ calls[j].cls.fault

\* The lines the handler emits for snippet j when it is the only snippet of
\* the transcript and the collaborators answer as they did for j.
SoloLines(j) ==
  aggregate([analyzed_transcript |-> <<>>, misconceptions |-> <<>>, summary_facts |-> <<>>],
            SnippetAt(j),
            analyze_line_safe(SnippetAt(j).text, calls[j].cls, calls[j].lk).out.value
           ).analyzed_transcript

RECURSIVE SoloLinesUpTo(_)
SoloLinesUpTo(n) == IF n = 0 THEN <<>> ELSE SoloLinesUpTo(n - 1) \o SoloLines(n)

-----------------------------------------------------------------------------
(* C1 *)

\* C1: partial-failure isolation.  Once a transcript is being analysed the
\* request always ends with status 200 and every snippet processed; a snippet
\* that faulted has, at its position among the emitted lines, a line with
\* verdict ERROR, null score, null correct_fact and a diagnostic source; and
\* the emitted lines are, in order, the lines each snippet yields on its own,
\* so no other snippet's line depends on the faulted one.
IsolationC1 ==
  /\ (pc = "done" /\ transcript # None /\ Val(transcript) # <<>>) => (status = 200 /\ i = Len(Val(transcript)))
  /\ i > 0 => status \in {0, 200}
  /\ analyzed_transcript = SoloLinesUpTo(i)
  /\ \A j \in 1..i :
       Faulted(j) =>
         LET p == Len(KeptUpTo(j)) IN
         /\ VerdictOf(j) = "ERROR"
         /\ p \in 1..Len(analyzed_transcript)
         /\ analyzed_transcript[p].timestamp = SnippetAt(j).start
         /\ analyzed_transcript[p].misinformation = "ERROR"
         /\ analyzed_transcript[p].score = None
         /\ analyzed_transcript[p].correct_fact = None
         /\ analyzed_transcript[p].source
              \in {Some("Snippet processing failed: model failure"),
                   Some("Snippet processing failed: 'NoneType' object has no attribute 'split'")}

\* A response in which one snippet faulted and another one carries a verdict
\* of the classifier.
WitnessC1 ==
  /\ Answered
  /\ \E j, k \in 1..i :
       /\ j # k
       /\ Faulted(j)
       /\ ~Faulted(k)
       /\ VerdictOf(k) \in {"REAL", "UNCERTAIN", "MISINFORMATION"}
       /\ Len(analyzed_transcript) = 2

-----------------------------------------------------------------------------
(* More vocabulary *)

\* The emitted line of a processed snippet whose verdict is not IGNORED.
LineOf(j) == analyzed_transcript[Len(KeptUpTo(j))]

Emitted(j) == \E p \in 1..Len(analyzed_transcript) :
                analyzed_transcript[p].timestamp = SnippetAt(j).start

InMisconceptions(j) == \E m \in 1..Len(misconceptions) :
                         misconceptions[m].timestamp = SnippetAt(j).start

CountVerdict(v) ==
  Cardinality({p \in 1..Len(analyzed_transcript) : analyzed_transcript[p].misinformation = v})

\* The classifier returned a class for snippet j.
Classified(j) ==
  /\ SnippetAt(j).text # None
  /\ Val(SnippetAt(j).text) \notin ShortOrFiller
  /\ ~calls[j].cls.fault

RawLabelOf(j) == label_map[calls[j].cls.pred_id]

\* The tiering of the six raw labels.
Tier(raw) ==
  CASE raw \in {"true", "mostly-true"} -> "REAL"
    [] raw \in {"half-true", "barely-true"} -> "UNCERTAIN"
    [] raw \in {"false", "pants-fire"} -> "MISINFORMATION"

\* The lookup throws: the package is missing, or the query is ambiguous and
\* its first candidate does not resolve.
LookupThrows(lk) ==
  \/ ~lk.import_ok
  \/ /\ lk.page = "DisambiguationError"
     /\ (lk.options = 0 \/ lk.first \notin {"text", "empty"})

\* The lookup finds nothing: no such page, or the network fails.
LookupFindsNothing(lk) ==
  /\ lk.import_ok
  /\ lk.page \in {"PageError", "ConnectionError"}

LookupFails(lk) == LookupThrows(lk) \/ LookupFindsNothing(lk)

IsMisinformationLine(l) == l.misinformation = "MISINFORMATION"
HasFact(l) == Truthy(l.correct_fact)

-----------------------------------------------------------------------------
(* C2 *)

\* C2 as stated: in every 200 response misinformation_count + real_count +
\* uncertain_count equals total_snippets, ERROR lines or not.
OriginalC2 ==
  Answered =>
    Val(summary).misinformation_count + Val(summary).real_count
      + CountVerdict("UNCERTAIN") = Val(summary).total_snippets

\* C2 amended: in every 200 response misinformation_count + real_count +
\* uncertain_count + error_count equals total_snippets, the number of emitted
\* lines; the three-term sum equals it exactly when no line is an ERROR line.
AmendedC2 ==
  Answered =>
    LET sm == Val(summary)
        three == sm.misinformation_count + sm.real_count + CountVerdict("UNCERTAIN")
    IN /\ sm.total_snippets = Len(analyzed_transcript)
       /\ three + CountVerdict("ERROR") = sm.total_snippets
       /\ (three = sm.total_snippets) <=> (CountVerdict("ERROR") = 0)

\* A response with an ERROR line next to an UNCERTAIN line.
WitnessC2 ==
  /\ Answered
  /\ CountVerdict("ERROR") = 1
  /\ CountVerdict("UNCERTAIN") = 1

-----------------------------------------------------------------------------
(* C3 *)

\* C3 as stated: when the lookup for a snippet classified MISINFORMATION
\* throws or finds nothing, the line is under misconceptions with a null
\* correct_fact and a non-null source, and the request answers 200.
OriginalC3 ==
  \A j \in 1..i :
    (Classified(j) /\ Tier(RawLabelOf(j)) = "MISINFORMATION" /\ LookupFails(calls[j].lk)) =>
      /\ InMisconceptions(j)
      /\ LineOf(j).correct_fact = None
      /\ LineOf(j).source # None
      /\ pc = "done" => status = 200

\* C3 amended: such a line is under misconceptions with a null correct_fact
\* and the request answers 200; its source is the diagnostic string
\* "Fact retrieval failed: ..." when the lookup throws and null when the
\* lookup finds nothing.
AmendedC3 ==
  \A j \in 1..i :
    (Classified(j) /\ Tier(RawLabelOf(j)) = "MISINFORMATION" /\ LookupFails(calls[j].lk)) =>
      /\ InMisconceptions(j)
      /\ LineOf(j).misinformation = "MISINFORMATION"
      /\ LineOf(j).correct_fact = None
      /\ LookupThrows(calls[j].lk) =>
           LineOf(j).source \in
             {Some("Fact retrieval failed: cannot access local variable 'exceptions'"),
              Some("Fact retrieval failed: page does not match any pages"),
              Some("Fact retrieval failed: list index out of range")}
      /\ LookupFindsNothing(calls[j].lk) => LineOf(j).source = None
      /\ pc = "done" => status = 200

\* A response with one MISINFORMATION line whose lookup threw and one whose
\* lookup found nothing.
WitnessC3 ==
  /\ Answered
  /\ Len(misconceptions) = 2
  /\ \E j, k \in 1..i :
       /\ LookupThrows(calls[j].lk) /\ calls[j].looked_up # None
       /\ LookupFindsNothing(calls[k].lk) /\ calls[k].looked_up # None

-----------------------------------------------------------------------------
(* C4 *)

\* C4: a line, and the analysis of any snippet, carries a non-null
\* correct_fact only if its verdict is MISINFORMATION.
FactOnlyOnMisinformationC4 ==
  /\ \A p \in 1..Len(analyzed_transcript) :
       analyzed_transcript[p].correct_fact # None =>
         analyzed_transcript[p].misinformation = "MISINFORMATION"
  /\ \A j \in 1..i :
       calls[j].analysis.correct_fact # None => VerdictOf(j) = "MISINFORMATION"

\* A response with a MISINFORMATION line that carries a fact and a line of
\* another verdict whose snippet was classified or faulted.
WitnessC4 ==
  /\ Answered
  /\ \E p, q \in 1..Len(analyzed_transcript) :
       /\ analyzed_transcript[p].misinformation = "MISINFORMATION"
       /\ analyzed_transcript[p].correct_fact = Some("fact")
       /\ analyzed_transcript[q].misinformation \in {"REAL", "UNCERTAIN", "ERROR"}

-----------------------------------------------------------------------------
(* C5 *)

\* C5: the transcript list holds one line per processed snippet whose verdict
\* is not IGNORED, in transcript order, with that snippet's timestamp, text
\* and verdict; misconceptions is the subsequence of its MISINFORMATION
\* lines; a 200 response has processed every snippet and its
\* misinformation_count is the length of misconceptions.
OrderC5 ==
  /\ Len(analyzed_transcript) = Len(KeptUpTo(i))
  /\ \A p \in 1..Len(analyzed_transcript) :
       LET j == KeptUpTo(i)[p] IN
       /\ analyzed_transcript[p].timestamp = SnippetAt(j).start
       /\ analyzed_transcript[p].text = SnippetAt(j).text
       /\ analyzed_transcript[p].misinformation = VerdictOf(j)
  /\ misconceptions = SelectSeq(analyzed_transcript, IsMisinformationLine)
  /\ Answered =>
       /\ i = Len(Val(transcript))
       /\ Val(summary).misinformation_count = Len(misconceptions)

\* A response of two lines of which only the second is MISINFORMATION.
WitnessC5 ==
  /\ Answered
  /\ Len(analyzed_transcript) = 2
  /\ Len(misconceptions) = 1
  /\ analyzed_transcript[2].misinformation = "MISINFORMATION"

-----------------------------------------------------------------------------
(* C6 *)

\* C6: for a classified snippet the verdict is the tier of the raw label,
\* whatever the confidence, and the confidence is the score of the analysis
\* and of the line.
TieringC6 ==
  \A j \in 1..i :
    Classified(j) =>
      /\ calls[j].analysis.raw_label = Some(RawLabelOf(j))
      /\ VerdictOf(j) = Tier(RawLabelOf(j))
      /\ calls[j].analysis.score = Some(calls[j].cls.confidence)
      /\ LineOf(j).misinformation = Tier(RawLabelOf(j))
      /\ LineOf(j).score = Some(calls[j].cls.confidence)

\* A response with a barely-true snippet at confidence 99 and a pants-fire
\* snippet at confidence 55.
WitnessC6 ==
  /\ Answered
  /\ \E j, k \in 1..i :
       /\ Classified(j) /\ RawLabelOf(j) = "barely-true" /\ calls[j].cls.confidence = 99
       /\ Classified(k) /\ RawLabelOf(k) = "pants-fire" /\ calls[k].cls.confidence = 55

-----------------------------------------------------------------------------
(* C7 *)

\* C7: a snippet whose text has fewer than 3 words or contains a denylisted
\* phrase in any casing is IGNORED, is not handed to the classifier and is in
\* none of the lists; every other text is handed to the classifier and has a
\* line; total_snippets does not count the dropped snippets.
FilterC7 ==
  /\ \A j \in 1..i :
       SnippetAt(j).text # None =>
         IF Val(SnippetAt(j).text) \in ShortOrFiller
         THEN /\ VerdictOf(j) = "IGNORED"
              /\ calls[j].tokenized = None
              /\ ~Emitted(j)
              /\ ~InMisconceptions(j)
              /\ \A f \in 1..Len(summary_facts) : summary_facts[f].term # SnippetAt(j).text
         ELSE /\ VerdictOf(j) # "IGNORED"
              /\ calls[j].tokenized = SnippetAt(j).text
              /\ Emitted(j)
  /\ Answered =>
       Val(summary).total_snippets =
         Cardinality({j \in 1..i : \/ SnippetAt(j).text = None
                                   \/ Val(SnippetAt(j).text) \notin ShortOrFiller})

\* A response to a transcript whose first snippet has a capitalised filler
\* phrase and whose second snippet is kept.
WitnessC7 ==
  /\ Answered
  /\ i = 2
  /\ SnippetAt(1).text = Some(TxtGreeting)
  /\ SnippetAt(2).text = Some(TxtClaim)
  /\ Len(analyzed_transcript) = 1

-----------------------------------------------------------------------------
(* C8 *)

\* C8 as stated: the 400 "No valid transcript found" answer is given only
\* after every listed track has been attempted, and a track is analysed only
\* as the first one whose fetch succeeded.
OriginalC8 ==
  /\ (pc = "done" /\ status = 400 /\ error = Some("No valid transcript found")) =>
       t = transcript_list
  /\ pc = "analyze" => transcript # None

-----------------------------------------------------------------------------
(* C9 *)

\* C9 as stated: whatever way the lookup fails, retrieve_correct_fact
\* returns a pair whose fact is None and raises nothing.
OriginalC9 ==
  \A j \in 1..i :
    (calls[j].looked_up # None /\ LookupFails(calls[j].lk)) =>
      /\ ~Val(calls[j].looked_up).raised
      /\ Val(calls[j].looked_up).value[1] = None

-----------------------------------------------------------------------------
(* C10 *)

\* C10: summary_facts holds, in order, one entry per misconceptions line
\* whose correct_fact is present (not null and not empty), with that line's
\* text, correct_fact and source, and nothing else; so
\* len(summary_facts) <= misinformation_count <= total_snippets.
SummaryFactsC10 ==
  LET with_fact == SelectSeq(misconceptions, HasFact) IN
  /\ Len(summary_facts) = Len(with_fact)
  /\ \A f \in 1..Len(summary_facts) :
       /\ summary_facts[f].term = with_fact[f].text
       /\ summary_facts[f].fact = with_fact[f].correct_fact
       /\ summary_facts[f].source = with_fact[f].source
  /\ Len(summary_facts) <= Len(misconceptions)
  /\ Len(misconceptions) <= Len(analyzed_transcript)
  /\ Answered =>
       /\ Len(summary_facts) <= Val(summary).misinformation_count
       /\ Val(summary).misinformation_count <= Val(summary).total_snippets

\* A response with two misconceptions of which only the second has a fact.
WitnessC10 ==
  /\ Answered
  /\ Len(misconceptions) = 2
  /\ ~HasFact(misconceptions[1])
  /\ HasFact(misconceptions[2])
  /\ Len(summary_facts) = 1

====
